---- MODULE Spec2Model ----
(***************************************************************************)
(* Model of the flex-gpu scheduler plugin: the per-node GPU model          *)
(* (gpuNode, constructGPUs), the two fit finders (MemAssumeFitIndexes,     *)
(* GPUAssumeFitIndexes) and the plugin's extension points (Filter,         *)
(* Reserve, Unreserve, Bind).                                              *)
(*                                                                         *)
(* A *resource.Quantity is a pointer: the model keeps a heap of quantity   *)
(* cells inside the gpuNode and the gpu's memory and usedMemory fields are *)
(* addresses into it, so that Add and Sub through an aliased pointer       *)
(* change what every holder of that pointer sees, as in Go.                *)
(* Quantities are integer valued (whole bytes, whole GPU counts).          *)
(***************************************************************************)
EXTENDS Integers, Sequences, FiniteSets, TLC

\* ---------------------------------------------------------------- bounds
\* Largest GPU count of a node.
MaxGPU == 2
\* Largest number of pods placed on the node.
MaxPods == 3
\* Largest number of pods placed on the node in the scenario runs.
MaxScenarioPods == 4
\* Fit-finder harness: largest number of pods already on the node, and of
\* finder calls made on one gpuNode.
MaxFitPods == 2
MaxCalls == 2

\* ------------------------------------------------------------- constants
GPUResourceName == "nvidia.flex.com/gpu"
MemResourceName == "nvidia.flex.com/memory"
GPUIndexAnnotationKey == "nvidia.flex.com/index"

\* ------------------------------------------------------ strconv (base 10)
\* A Go string is modelled as a sequence of one-character strings.
Digits == <<"0", "1", "2", "3", "4", "5", "6", "7", "8", "9">>

IsDigit(c) == \E d \in 1..10 : Digits[d] = c

DigitVal(c) == (CHOOSE d \in 1..10 : Digits[d] = c) - 1

RECURSIVE ItoaNat(_)
ItoaNat(n) ==
    IF n < 10 THEN <<Digits[n + 1]>>
    ELSE ItoaNat(n \div 10) \o <<Digits[(n % 10) + 1]>>

\* strconv.Itoa
ItoaOneBased(n) == IF n + 1 < 0 THEN <<"-">> \o ItoaNat(-(n + 1)) ELSE ItoaNat(n + 1)

Itoa(n) == IF n < 0 THEN <<"-">> \o ItoaNat(-n) ELSE ItoaNat(n)

RECURSIVE ParseDigits(_, _)
ParseDigits(s, acc) ==
    IF Len(s) = 0 THEN acc
    ELSE ParseDigits(Tail(s), acc * 10 + DigitVal(Head(s)))

\* strconv.Atoi: an optional sign followed by at least one decimal digit.
AtoiIgnoreErr(s) ==
    LET signed == Len(s) > 0 /\ Head(s) \in {"+", "-"}
        body   == IF signed THEN Tail(s) ELSE s
        good   == Len(body) > 0 /\ \A k \in 1..Len(body) : IsDigit(body[k])
        mag    == IF good THEN ParseDigits(body, 0) ELSE 0
    IN  [err |-> FALSE,
         val |-> IF signed /\ Head(s) = "-" THEN -mag ELSE mag]

Atoi(s) ==
    LET signed == Len(s) > 0 /\ Head(s) \in {"+", "-"}
        body   == IF signed THEN Tail(s) ELSE s
        good   == Len(body) > 0 /\ \A k \in 1..Len(body) : IsDigit(body[k])
        mag    == IF good THEN ParseDigits(body, 0) ELSE 0
    IN  [err |-> ~good,
         val |-> IF signed /\ Head(s) = "-" THEN -mag ELSE mag]

\* ------------------------------------------------------------------ pods
\* A pod is [Containers: sequence of limit maps, Annotations: map].
\* A map is a function whose domain is the set of keys present.
RECURSIVE LimitSum(_, _)
LimitSum(name, containers) ==
    IF Len(containers) = 0 THEN [val |-> 0, exist |-> FALSE]
    ELSE LET c    == Head(containers)
             rest == LimitSum(name, Tail(containers))
         IN  IF name \in DOMAIN c
             THEN [val |-> c[name] + rest.val, exist |-> TRUE]
             ELSE rest

\* podResourceLimit: the sum of the limit over the containers that declare it.
podResourceLimitFirst(name, pod) ==
    LimitSum(name, SubSeq(pod.Containers, 1, 1))

podResourceLimit(name, pod) == LimitSum(name, pod.Containers)

RECURSIVE nodeResourceLimitSumOf(_, _)
nodeResourceLimitSumOf(name, pods) ==
    IF Len(pods) = 0 THEN 0
    ELSE podResourceLimit(name, Head(pods)).val
         + nodeResourceLimitSumOf(name, Tail(pods))

\* nodeResourceLimitSum: the limit summed over every pod of the node.
nodeResourceLimitSum(name, nodeInfo) == nodeResourceLimitSumOf(name, nodeInfo.Pods)

\* -------------------------------------------------------------- gpu model
\* Address of the one memEachGPU quantity every gpu's memory points to.
MemEachAddr == 1
\* Address of the usedMemory quantity of the gpu with the given index.
UsedAddr(i) == i + 2

\* The gpu of one pass of the first loop of constructGPUs.
NewGPU(i) ==
    [index |-> i, monopoly |-> FALSE, memory |-> MemEachAddr, usedMemory |-> UsedAddr(i)]

\* The second loop of constructGPUs, from pod k on. st = [gpus, heap, panic].
RECURSIVE constructLoop(_, _, _)
constructLoop(st, pods, k) ==
    IF k > Len(pods) \/ st.panic THEN st
    ELSE
    LET pod      == pods[k]
        gpuL     == podResourceLimit(GPUResourceName, pod)
        memL     == podResourceLimit(MemResourceName, pod)
        hasAnnotation == GPUIndexAnnotationKey \in DOMAIN pod.Annotations
        val      == IF hasAnnotation THEN pod.Annotations[GPUIndexAnnotationKey] ELSE <<>>
        conv     == Atoi(val)
        index    == conv.val
        cnt      == Len(st.gpus)
    IN  IF ~gpuL.exist /\ ~memL.exist THEN constructLoop(st, pods, k + 1)
        ELSE IF conv.err THEN constructLoop(st, pods, k + 1)
        ELSE IF ~hasAnnotation THEN constructLoop(st, pods, k + 1)
        ELSE IF index < 0 \/ index >= cnt
             THEN [st EXCEPT !.panic = TRUE]       \* gpus[index]: index out of range
        ELSE
        LET g1 == IF gpuL.exist
                  THEN [st.gpus EXCEPT ![index + 1].monopoly = TRUE]
                  ELSE st.gpus
            h1 == IF memL.exist
                  THEN [st.heap EXCEPT ![g1[index + 1].usedMemory] = @ + memL.val]
                  ELSE st.heap
        IN  constructLoop([gpus |-> g1, heap |-> h1, panic |-> FALSE], pods, k + 1)

\* constructGPUs: cnt gpus sharing the memEachGPU quantity, then the pods' use.
constructGPUs(cnt, memEachGPU, pods) ==
    constructLoop(
        [gpus  |-> [i \in 1..cnt |-> NewGPU(i - 1)],
         heap  |-> [a \in 1..(cnt + 1) |-> IF a = MemEachAddr THEN memEachGPU ELSE 0],
         panic |-> FALSE],
        pods, 1)

\* Value of an allocatable resource; the zero Quantity when the key is absent.
Allocatable(nodeInfo, name) ==
    IF name \in DOMAIN nodeInfo.Allocatable THEN nodeInfo.Allocatable[name] ELSE 0

\* The gpuNode left by a panic while it was being built.
PanicNode == [gpuCount |-> 0, memoryTotal |-> 0, gpus |-> <<>>, heap |-> <<>>, panic |-> TRUE]

\* NewGPUNode: memCnt/gpuCnt is Go integer division and panics on a zero divisor.
NewGPUNodeUndivided(nodeInfo) ==
    LET gpuCnt == Allocatable(nodeInfo, GPUResourceName)
        memCnt == Allocatable(nodeInfo, MemResourceName)
    IN  IF gpuCnt = 0 THEN PanicNode
        ELSE LET c == constructGPUs(gpuCnt, memCnt, nodeInfo.Pods)
             IN  IF c.panic THEN PanicNode
                 ELSE [gpuCount |-> gpuCnt, memoryTotal |-> memCnt,
                       gpus |-> c.gpus, heap |-> c.heap, panic |-> FALSE]

NewGPUNode(nodeInfo) ==
    LET gpuCnt == Allocatable(nodeInfo, GPUResourceName)
        memCnt == Allocatable(nodeInfo, MemResourceName)
    IN  IF gpuCnt = 0 THEN PanicNode
        ELSE LET c == constructGPUs(gpuCnt, memCnt \div gpuCnt, nodeInfo.Pods)
             IN  IF c.panic THEN PanicNode
                 ELSE [gpuCount |-> gpuCnt, memoryTotal |-> memCnt,
                       gpus |-> c.gpus, heap |-> c.heap, panic |-> FALSE]

\* The values one unit shows: what its memory and usedMemory pointers point to.
Unit(n, k) ==
    [index         |-> n.gpus[k].index,
     exclusiveLock |-> n.gpus[k].monopoly,
     capacityBytes |-> n.heap[n.gpus[k].memory],
     usedBytes     |-> n.heap[n.gpus[k].usedMemory]]

Units(n) == [k \in 1..Len(n.gpus) |-> Unit(n, k)]

\* ------------------------------------------------------------ fit finders
\* The loop of MemAssumeFitIndexes, from gpu k on. acc = [heap, fits].
\* assumed := u.usedMemory and remain := u.memory copy the pointers, so
\* assumed.Add writes the gpu's usedMemory and remain.Sub writes the
\* memEachGPU quantity all gpus share; a fit keeps the pointer remain.
\* The test of one gpu in MemAssumeFitIndexes, after assumed.Add(*memLimit).
memFitsStrict(heap, u) == ~u.monopoly /\ heap[u.memory] > heap[u.usedMemory]

memFitsIgnoreLock(heap, u) == heap[u.memory] >= heap[u.usedMemory]

memFits(heap, u) == ~u.monopoly /\ heap[u.memory] >= heap[u.usedMemory]

RECURSIVE memFitLoop(_, _, _, _)
memFitLoop(gpus, memLimit, k, acc) ==
    IF k > Len(gpus) THEN acc
    ELSE
    LET u       == gpus[k]
        assumed == u.usedMemory
        h1      == [acc.heap EXCEPT ![assumed] = @ + memLimit]
    IN  IF memFits(h1, u)
        THEN LET remain == u.memory
                 h2     == [h1 EXCEPT ![remain] = @ - h1[assumed]]
             IN  memFitLoop(gpus, memLimit, k + 1,
                     [heap |-> h2,
                      fits |-> Append(acc.fits, [index |-> u.index, remain |-> remain])])
        ELSE memFitLoop(gpus, memLimit, k + 1, [heap |-> h1, fits |-> acc.fits])

\* The less function handed to sort.Slice: compares what the remain pointers
\* point to when the sort runs.
fitLess(heap, a, b) == heap[a.remain] < heap[b.remain]

\* Inner loop of the insertion sort: sink element j while it is less than j-1.
RECURSIVE sinkDown(_, _, _)
sinkDown(heap, data, j) ==
    IF j > 1 /\ fitLess(heap, data[j], data[j - 1])
    THEN sinkDown(heap, [data EXCEPT ![j] = data[j - 1], ![j - 1] = data[j]], j - 1)
    ELSE data

\* sort.Slice on at most 12 elements is an insertion sort.
RECURSIVE insertionSort(_, _, _)
insertionSort(heap, data, i) ==
    IF i > Len(data) THEN data
    ELSE insertionSort(heap, sinkDown(heap, data, i), i + 1)

\* gpuNode.MemAssumeFitIndexes: the returned indexes, and the gpuNode as the
\* call leaves it.
MemAssumeFitIndexes(n, memLimit) ==
    LET r      == memFitLoop(n.gpus, memLimit, 1, [heap |-> n.heap, fits |-> <<>>])
        sorted == insertionSort(r.heap, r.fits, 2)
    IN  [indexes |-> [k \in 1..Len(sorted) |-> sorted[k].index],
         node    |-> [n EXCEPT !.heap = r.heap]]

\* The test of one gpu in GPUAssumeFitIndexes.
gpuFitsLockOnly(n, u) == ~u.monopoly

gpuFitsUnusedOnly(n, u) == n.heap[u.usedMemory] = 0

gpuFits(n, u) == ~u.monopoly /\ n.heap[u.usedMemory] = 0

\* The loop of GPUAssumeFitIndexes, from gpu k on: fits are appended in the
\* order of u.gpus.
RECURSIVE gpuFitLoopDescending(_, _, _)
gpuFitLoopDescending(n, k, fits) ==
    IF k > Len(n.gpus) THEN fits
    ELSE gpuFitLoopDescending(n, k + 1,
            IF gpuFits(n, n.gpus[k]) THEN <<n.gpus[k].index>> \o fits ELSE fits)

RECURSIVE gpuFitLoop(_, _, _)
gpuFitLoop(n, k, fits) ==
    IF k > Len(n.gpus) THEN fits
    ELSE gpuFitLoop(n, k + 1,
            IF gpuFits(n, n.gpus[k]) THEN Append(fits, n.gpus[k].index) ELSE fits)

\* gpuNode.GPUAssumeFitIndexes: reads the gpuNode, writes nothing.
GPUAssumeFitIndexes(n, gpuLimit) ==
    [indexes |-> gpuFitLoop(n, 1, <<>>), node |-> n]

\* ------------------------------------------------------- extension points
\* framework.NewStatus(code, reason); nil is Success.
NewStatus(code, reason) == [code |-> code, reason |-> reason]
Nil == NewStatus("Success", "")

\* No gpuNode: the handler returned before it built one.
NoNode == [gpuCount |-> 0, memoryTotal |-> 0, gpus |-> <<>>, heap |-> <<>>, panic |-> FALSE]

\* What a handler call yields: the returned status, whether it panicked, the
\* gpuNode as built (pre) and as the handler leaves it (no), and the last
\* list a fit finder returned.
Outcome(status, panic, preNode, postNode, idx) ==
    [status |-> status, panic |-> panic, pre |-> preNode, no |-> postNode, indexes |-> idx]

Return(status) == Outcome(status, FALSE, NoNode, NoNode, <<>>)

\* A pod that declares neither resource: !gpuLimitExist && !memLimitExist.
NoAcceleratorMissed(gpuLimit, memLimit) == FALSE

NoAccelerator(gpuLimit, memLimit) == ~gpuLimit.exist /\ ~memLimit.exist

\* A pod that declares both resources: gpuLimitExist && memLimitExist.
ConflictMissed(gpuLimit, memLimit) == FALSE

Conflict(gpuLimit, memLimit) == gpuLimit.exist /\ memLimit.exist

\* The ok of nodeInfo.Allocatable.ScalarResources[name].
ReportsGPUOnly(nodeInfo, name) == GPUResourceName \in DOMAIN nodeInfo.Allocatable

Reports(nodeInfo, name) == name \in DOMAIN nodeInfo.Allocatable

\* assumeLimitSum.Cmp(allocatable) > 0
ExceedsOrEqual(assumeLimitSum, allocatable) == assumeLimitSum >= allocatable

Exceeds(assumeLimitSum, allocatable) == assumeLimitSum > allocatable

\* What Filter leaves of the pod and the NodeInfo it was handed: it assigns
\* through neither, every quantity it adds to is its own copy.
FilterLeavesAnnotated(pod, nodeInfo) ==
    [pod      |-> [pod EXCEPT !.Annotations =
                     [k \in (DOMAIN @) \cup {GPUIndexAnnotationKey} |-> <<"0">>]],
     nodeInfo |-> nodeInfo]

FilterLeaves(pod, nodeInfo) == [pod |-> pod, nodeInfo |-> nodeInfo]

\* FlexGPU.Filter
FilterCall(pod, nodeInfo) ==
    LET gpuLimit == podResourceLimit(GPUResourceName, pod)
        memLimit == podResourceLimit(MemResourceName, pod)
        gpuAssumeLimitSum == nodeResourceLimitSum(GPUResourceName, nodeInfo) + gpuLimit.val
        memAssumeLimitSum == nodeResourceLimitSum(MemResourceName, nodeInfo) + memLimit.val
    IN  IF NoAccelerator(gpuLimit, memLimit) THEN Return(Nil)
        ELSE IF Conflict(gpuLimit, memLimit)
        THEN Return(NewStatus("UnschedulableAndUnresolvable", "pod conflict resources"))
        ELSE IF ~Reports(nodeInfo, GPUResourceName)
        THEN Return(NewStatus("UnschedulableAndUnresolvable", "unknown resource type"))
        ELSE IF ~Reports(nodeInfo, MemResourceName)
        THEN Return(NewStatus("UnschedulableAndUnresolvable", "unknown resource type"))
        ELSE IF Exceeds(gpuAssumeLimitSum, Allocatable(nodeInfo, GPUResourceName))
        THEN Return(NewStatus("Unschedulable", "insufficient resource nvidia.flex.com/gpu"))
        ELSE IF Exceeds(memAssumeLimitSum, Allocatable(nodeInfo, MemResourceName))
        THEN Return(NewStatus("Unschedulable", "insufficient resource nvidia.flex.com/memory"))
        ELSE
        LET built == NewGPUNode(nodeInfo)
        IN  IF built.panic THEN Outcome(Nil, TRUE, built, built, <<>>)
            ELSE IF memLimit.exist
            THEN LET r == MemAssumeFitIndexes(built, memLimit.val)
                 IN  IF Len(r.indexes) = 0
                     THEN Outcome(NewStatus("Unschedulable",
                                      "no fit indexes resource nvidia.flex.com/memory"),
                                  FALSE, built, r.node, r.indexes)
                     ELSE Outcome(Nil, FALSE, built, r.node, r.indexes)
            ELSE Outcome(Nil, FALSE, built, built, <<>>)

\* p.Annotations[GPUIndexAnnotationKey] = v
SetAnnotationIfAbsent(annotations, v) ==
    [k \in (DOMAIN annotations) \cup {GPUIndexAnnotationKey} |->
        IF k = GPUIndexAnnotationKey /\ k \notin DOMAIN annotations
        THEN v ELSE annotations[k]]

SetAnnotation(annotations, v) ==
    [k \in (DOMAIN annotations) \cup {GPUIndexAnnotationKey} |->
        IF k = GPUIndexAnnotationKey THEN v ELSE annotations[k]]

\* delete(p.Annotations, GPUIndexAnnotationKey)
DeleteAllAnnotations(annotations) == <<>>

DeleteAnnotation(annotations) ==
    [k \in (DOMAIN annotations) \ {GPUIndexAnnotationKey} |-> annotations[k]]

\* The result of Reserve: the outcome and p.Annotations as the call leaves them.
Reserved(outcome, annotations) == [out |-> outcome, Annotations |-> annotations]

\* FlexGPU.Reserve; found: whether the snapshot has a NodeInfo for nodeName.
ReserveCall(pod, nodeInfo, found) ==
    LET gpuLimit == podResourceLimit(GPUResourceName, pod)
        memLimit == podResourceLimit(MemResourceName, pod)
    IN  IF ~found
        THEN Reserved(Return(NewStatus("Error", "getting node from Snapshot")), pod.Annotations)
        ELSE IF NoAccelerator(gpuLimit, memLimit)
        THEN Reserved(Return(Nil), pod.Annotations)
        ELSE IF Conflict(gpuLimit, memLimit)
        THEN Reserved(Return(NewStatus("UnschedulableAndUnresolvable", "pod conflict resources")),
                      pod.Annotations)
        ELSE
        LET built == NewGPUNode(nodeInfo)
        IN  IF built.panic THEN Reserved(Outcome(Nil, TRUE, built, built, <<>>), pod.Annotations)
            ELSE IF gpuLimit.exist
            THEN LET r == GPUAssumeFitIndexes(built, gpuLimit.val)
                 IN  IF Len(r.indexes) = 0
                     THEN Reserved(Outcome(NewStatus("Unschedulable",
                                               "allocate index fail nvidia.flex.com/gpu"),
                                           FALSE, built, r.node, r.indexes),
                                   pod.Annotations)
                     ELSE Reserved(Outcome(Nil, FALSE, built, r.node, r.indexes),
                                   SetAnnotation(pod.Annotations, Itoa(r.indexes[1])))
            ELSE LET r == MemAssumeFitIndexes(built, memLimit.val)
                 IN  IF Len(r.indexes) = 0
                     THEN Reserved(Outcome(NewStatus("Unschedulable",
                                               "allocate index fail nvidia.flex.com/memory"),
                                           FALSE, built, r.node, r.indexes),
                                   pod.Annotations)
                     ELSE Reserved(Outcome(Nil, FALSE, built, r.node, r.indexes),
                                   SetAnnotation(pod.Annotations, Itoa(r.indexes[1])))

\* FlexGPU.Unreserve: p.Annotations as the call leaves them.
UnreserveCall(pod) == DeleteAnnotation(pod.Annotations)

\* ------------------------------------------------------------------ state
VARIABLES
    nodeInfo,   \* the node of the snapshot: [Allocatable, Pods]
    p,          \* the pod of the running scheduling cycle
    pc,         \* where the cycle stands
    status,     \* the status the last handler returned
    filtered,   \* Filter returned Success in this cycle
    pre,        \* the gpuNode the last handler built, as built
    no,         \* the same gpuNode as the handler (or finder call) left it
    indexes,    \* the list the last fit finder call returned
    calls,      \* fit-finder harness: the finder calls made on no, in order
    rsv,        \* history: the last successful Reserve of this pod
    again,      \* history: this Reserve directly followed Reserve, Unreserve
    ledger,     \* history: per unit, what the commits so far put on it
    inflight,   \* reserved pods whose binding has not reached the snapshot
    raced       \* history: a handler ran while a binding was in flight

vars == <<nodeInfo, p, pc, status, filtered, pre, no, indexes, calls, rsv, again, ledger,
          inflight, raced>>

\* ------------------------------------------------------------- input sets
Container(name, q) == name :> q
NoLimits == <<>>
NoAnnotations == <<>>
Pod(containers, annotations) == [Containers |-> containers, Annotations |-> annotations]
IndexAnnotation(v) == GPUIndexAnnotationKey :> v

\* Container lists of the pods that are scheduled: shared 1, shared 2 (over
\* two containers), shared 5, exclusive 1, no accelerator, both kinds.
PodContainers ==
    { <<Container(MemResourceName, 1)>>,
      <<Container(MemResourceName, 1), Container(MemResourceName, 1)>>,
      <<Container(MemResourceName, 5)>>,
      <<Container(GPUResourceName, 1)>>,
      <<NoLimits>>,
      <<Container(GPUResourceName, 1), Container(MemResourceName, 1)>> }

\* A pod arrives without the index annotation or with one somebody put there.
PodSpecs ==
    { Pod(c, NoAnnotations) : c \in PodContainers }
    \cup { Pod(c, IndexAnnotation(<<"1">>)) :
             c \in { <<Container(MemResourceName, 1)>>, <<Container(GPUResourceName, 1)>> } }

\* Allocatable maps: both resources, or one of them missing.
Allocatables ==
    { Container(GPUResourceName, g) @@ Container(MemResourceName, 16) : g \in 1..MaxGPU }
    \cup { Container(GPUResourceName, MaxGPU) @@ Container(MemResourceName, 15),
           Container(MemResourceName, 16),
           Container(GPUResourceName, MaxGPU) }

NodeNames == {"node-1", "node-x"}
SnapshotHas(nodeName) == nodeName = "node-1"

EmptyPod == Pod(<<>>, NoAnnotations)
NoStatus == NewStatus("", "")
NoReserve == [valid |-> FALSE, before |-> NoNode, index |-> -1, Annotations |-> NoAnnotations]

EmptyLedger(alloc) ==
    [k \in 1..(IF GPUResourceName \in DOMAIN alloc THEN alloc[GPUResourceName] ELSE 0) |->
        [usedBytes |-> 0, exclusiveLock |-> FALSE]]

\* The ledger after the commit of pod at unit index.
Commit(led, pod, index) ==
    LET gpuLimit == podResourceLimit(GPUResourceName, pod)
        memLimit == podResourceLimit(MemResourceName, pod)
    IN  IF index < 0 THEN led
        ELSE [led EXCEPT ![index + 1] =
                [usedBytes     |-> @.usedBytes + memLimit.val,
                 exclusiveLock |-> @.exclusiveLock \/ gpuLimit.exist]]

\* ---------------------------------------------------------------- actions
Init ==
    /\ nodeInfo \in { [Allocatable |-> a, Pods |-> <<>>] : a \in Allocatables }
    /\ p = EmptyPod
    /\ pc = "idle"
    /\ status = NoStatus
    /\ filtered = FALSE
    /\ pre = NoNode
    /\ no = NoNode
    /\ indexes = <<>>
    /\ calls = <<>>
    /\ rsv = NoReserve
    /\ again = FALSE
    /\ ledger = EmptyLedger(nodeInfo.Allocatable)
    /\ inflight = <<>>
    /\ raced = FALSE

\* A scheduling cycle starts for one of the pods, while the node has room.
BeginFrom(pods, maxPods) ==
    /\ pc \in {"idle", "rejected", "unreserved"}
    /\ Len(nodeInfo.Pods) <= maxPods
    /\ \E pod \in pods : p' = pod
    /\ pc' = "new"
    /\ status' = NoStatus
    /\ filtered' = FALSE
    /\ rsv' = NoReserve
    /\ again' = FALSE
    /\ pre' = NoNode
    /\ no' = NoNode
    /\ indexes' = <<>>
    /\ UNCHANGED <<nodeInfo, calls, ledger, inflight, raced>>

Begin == BeginFrom(PodSpecs, MaxPods)

\* The framework calls Filter for the pod and the node.
Filter ==
    /\ pc = "new"
    /\ \E r \in {FilterCall(p, nodeInfo)} :
           /\ status' = r.status
           /\ pre' = r.pre
           /\ no' = r.no
           /\ indexes' = r.indexes
           /\ filtered' = (~r.panic /\ r.status = Nil)
           /\ pc' = IF r.panic THEN "crashed"
                    ELSE IF r.status = Nil THEN "filtered" ELSE "rejected"
           /\ p' = FilterLeaves(p, nodeInfo).pod
           /\ nodeInfo' = FilterLeaves(p, nodeInfo).nodeInfo
    /\ raced' = IF Len(inflight) > 0 THEN TRUE ELSE raced
    /\ UNCHANGED <<calls, rsv, again, ledger, inflight>>

\* The framework calls Reserve: after a feasible Filter, where Filter is not
\* enabled for the plugin, or again after Unreserve.
Reserve ==
    /\ pc \in {"new", "filtered", "unreserved"}
    /\ \E nodeName \in NodeNames :
       \E r \in {ReserveCall(p, nodeInfo, SnapshotHas(nodeName))} :
        LET good == ~r.out.panic /\ r.out.status = Nil
        IN  /\ status' = r.out.status
            /\ pre' = r.out.pre
            /\ no' = r.out.no
            /\ indexes' = r.out.indexes
            /\ p' = [p EXCEPT !.Annotations = r.Annotations]
            /\ pc' = IF r.out.panic THEN "crashed"
                     ELSE IF good THEN "reserved" ELSE "failed"
            /\ again' = (good /\ pc = "unreserved" /\ rsv.valid)
            /\ rsv' = IF good /\ pc = "unreserved" /\ rsv.valid THEN rsv
                      ELSE IF good
                      THEN [valid       |-> TRUE,
                            before      |-> NewGPUNode(nodeInfo),
                            index       |-> IF Len(r.out.indexes) > 0
                                            THEN r.out.indexes[1] ELSE -1,
                            Annotations |-> r.Annotations]
                      ELSE NoReserve
    /\ raced' = IF Len(inflight) > 0 THEN TRUE ELSE raced
    /\ UNCHANGED <<nodeInfo, filtered, calls, ledger, inflight>>

\* The framework calls Unreserve: the cycle is aborted after Reserve, or
\* Reserve or Bind failed.
Unreserve ==
    /\ pc \in {"reserved", "failed"}
    /\ p' = [p EXCEPT !.Annotations = UnreserveCall(p)]
    /\ pc' = IF pc = "reserved" THEN "unreserved" ELSE "idle"
    /\ UNCHANGED <<nodeInfo, status, filtered, pre, no, indexes, calls, rsv, again, ledger,
                   inflight, raced>>

\* FlexGPU.Bind: the binding carries p.Annotations; when the API server
\* accepts it the pod is on the node with them, otherwise Bind returns Error.
BindUpTo(maxPods) ==
    /\ pc = "reserved"
    /\ Len(nodeInfo.Pods) < maxPods
    /\ \E accepted \in BOOLEAN :
        /\ nodeInfo' = IF accepted
                       THEN [nodeInfo EXCEPT !.Pods = Append(@, p)]
                       ELSE nodeInfo
        /\ status' = IF accepted THEN Nil ELSE NewStatus("Error", "bind")
        /\ pc' = IF accepted THEN "idle" ELSE "failed"
        /\ ledger' = IF accepted THEN Commit(ledger, p, rsv.index) ELSE ledger
    /\ UNCHANGED <<p, filtered, pre, no, indexes, calls, rsv, again, inflight, raced>>

Bind == BindUpTo(MaxPods)

Next == Begin \/ Filter \/ Reserve \/ Unreserve \/ Bind

Spec == Init /\ [][Next]_vars

\* ------------------------------------------------- scenario specification
\* The pods of the README-style scenario: shared 1, 2 and 5, exclusive 1, on
\* a node with 2 GPUs and 16 of memory.
ScenarioPods ==
    { Pod(c, NoAnnotations) :
        c \in { <<Container(MemResourceName, 1)>>,
                <<Container(MemResourceName, 1), Container(MemResourceName, 1)>>,
                <<Container(MemResourceName, 5)>>,
                <<Container(GPUResourceName, 1)>> } }

ScenarioAllocatable == Container(GPUResourceName, 2) @@ Container(MemResourceName, 16)

ScenarioInit ==
    /\ nodeInfo = [Allocatable |-> ScenarioAllocatable, Pods |-> <<>>]
    /\ p = EmptyPod
    /\ pc = "idle"
    /\ status = NoStatus
    /\ filtered = FALSE
    /\ pre = NoNode
    /\ no = NoNode
    /\ indexes = <<>>
    /\ calls = <<>>
    /\ rsv = NoReserve
    /\ again = FALSE
    /\ ledger = EmptyLedger(nodeInfo.Allocatable)
    /\ inflight = <<>>
    /\ raced = FALSE

ScenarioBegin == BeginFrom(ScenarioPods, MaxScenarioPods)

ScenarioBind == BindUpTo(MaxScenarioPods)

ScenarioNext == ScenarioBegin \/ Filter \/ Reserve \/ Unreserve \/ ScenarioBind

SpecScenario == ScenarioInit /\ [][ScenarioNext]_vars

\* ----------------------------------------------- fit-finder specification
\* Pods already on the node, each with the index annotation of some unit.
FitPods ==
    { Pod(c, IndexAnnotation(Itoa(i))) :
        c \in { <<Container(MemResourceName, 1)>>,
                <<Container(MemResourceName, 5)>>,
                <<Container(GPUResourceName, 1)>> },
        i \in 0..(MaxGPU - 1) }

RECURSIVE SeqsUpTo(_, _)
SeqsUpTo(S, n) ==
    IF n = 0 THEN {<<>>}
    ELSE LET shorter == SeqsUpTo(S, n - 1)
         IN  shorter \cup { Append(q, x) : q \in shorter, x \in S }

\* Nodes that report both resources, with pods whose gpuNode can be built.
FitNodeInfos ==
    { ni \in { [Allocatable |-> a, Pods |-> q] :
                 a \in { al \in Allocatables :
                           {GPUResourceName, MemResourceName} \subseteq DOMAIN al },
                 q \in SeqsUpTo(FitPods, MaxFitPods) } :
        ~NewGPUNode(ni).panic }

\* A gpuNode is built for some node; p carries the requested quantities.
FitInit ==
    /\ nodeInfo \in FitNodeInfos
    /\ p \in ScenarioPods
    /\ pc = "built"
    /\ status = NoStatus
    /\ filtered = FALSE
    /\ pre = NewGPUNode(nodeInfo)
    /\ no = pre
    /\ indexes = <<>>
    /\ calls = <<>>
    /\ rsv = NoReserve
    /\ again = FALSE
    /\ ledger = EmptyLedger(nodeInfo.Allocatable)
    /\ inflight = <<>>
    /\ raced = FALSE

\* One more finder call on the gpuNode no, the finder of the resource p
\* declares; pre keeps the gpuNode as it was before the call.
Called(finder, r) ==
    /\ pre' = no
    /\ no' = r.node
    /\ indexes' = r.indexes
    /\ calls' = Append(calls, [finder |-> finder, indexes |-> r.indexes])
    /\ pc' = "called"
    /\ UNCHANGED <<nodeInfo, p, status, filtered, rsv, again, ledger, inflight, raced>>

CallMemAssumeFitIndexes ==
    /\ pc \in {"built", "called"}
    /\ Len(calls) < MaxCalls
    /\ podResourceLimit(MemResourceName, p).exist
    /\ \E r \in {MemAssumeFitIndexes(no, podResourceLimit(MemResourceName, p).val)} :
           Called("mem", r)

CallGPUAssumeFitIndexes ==
    /\ pc \in {"built", "called"}
    /\ Len(calls) < MaxCalls
    /\ podResourceLimit(GPUResourceName, p).exist
    /\ \E r \in {GPUAssumeFitIndexes(no, podResourceLimit(GPUResourceName, p).val)} :
           Called("gpu", r)

FitNext == CallMemAssumeFitIndexes \/ CallGPUAssumeFitIndexes

SpecFit == FitInit /\ [][FitNext]_vars

\* ---------------------------------------------- any-snapshot specification
\* Pods the snapshot may show on a node, committed by this plugin or not:
\* with the index of a unit, with no annotation, with one that is no number,
\* and a pod without accelerator limits that carries the annotation.
MaxNodePods == 2

NodePods ==
    { Pod(<<Container(MemResourceName, 5)>>, IndexAnnotation(<<"0">>)),
      Pod(<<Container(MemResourceName, 5)>>, IndexAnnotation(<<"1">>)),
      Pod(<<Container(GPUResourceName, 1)>>, IndexAnnotation(<<"0">>)),
      Pod(<<Container(GPUResourceName, 1)>>, IndexAnnotation(<<"1">>)),
      Pod(<<Container(MemResourceName, 8)>>, NoAnnotations),
      Pod(<<Container(GPUResourceName, 1)>>, IndexAnnotation(<<"x">>)),
      Pod(<<NoLimits>>, IndexAnnotation(<<"0">>)) }

\* The pods scheduled: those of PodSpecs, one with an annotation of somebody
\* else next to the index, and one declaring both kinds and one declaring
\* neither that arrive annotated.
NodeCyclePods ==
    PodSpecs
    \cup { Pod(<<Container(MemResourceName, 1)>>,
                IndexAnnotation(<<"1">>) @@ ("owner" :> <<"a">>)),
           Pod(<<Container(GPUResourceName, 1), Container(MemResourceName, 1)>>,
               IndexAnnotation(<<"1">>)),
           Pod(<<NoLimits>>, IndexAnnotation(<<"1">>)) }

\* Allocatable maps, also one that reports no GPU at all.
NodeAllocatables ==
    Allocatables \cup { Container(GPUResourceName, 0) @@ Container(MemResourceName, 16) }

NodeInit ==
    /\ nodeInfo \in { [Allocatable |-> a, Pods |-> q] :
                        a \in NodeAllocatables, q \in SeqsUpTo(NodePods, MaxNodePods) }
    /\ p = EmptyPod
    /\ pc = "idle"
    /\ status = NoStatus
    /\ filtered = FALSE
    /\ pre = NoNode
    /\ no = NoNode
    /\ indexes = <<>>
    /\ calls = <<>>
    /\ rsv = NoReserve
    /\ again = FALSE
    /\ ledger = EmptyLedger(nodeInfo.Allocatable)
    /\ inflight = <<>>
    /\ raced = FALSE

NodeBegin == BeginFrom(NodeCyclePods, MaxNodePods)

NodeNext == NodeBegin \/ Filter \/ Reserve \/ Unreserve

SpecNode == NodeInit /\ [][NodeNext]_vars

\* -------------------------------------------- overlapping-cycles specification
\* The framework runs the binding of a reserved pod in the background and
\* goes on with the next pod; until the binding has landed, the snapshot does
\* not show the pod (nor its annotation) on the node.
MaxRacePods == 3

RaceBegin ==
    /\ Len(nodeInfo.Pods) + Len(inflight) < MaxRacePods
    /\ BeginFrom(ScenarioPods, MaxRacePods)

\* The binding of p is handed over; the scheduling of the next pod may begin.
BindAsync ==
    /\ pc = "reserved"
    /\ inflight' = Append(inflight, p)
    /\ pc' = "idle"
    /\ UNCHANGED <<nodeInfo, p, status, filtered, pre, no, indexes, calls, rsv, again, ledger,
                   raced>>

\* A binding handed over earlier lands: the pod is on the node, annotated.
BindLands ==
    /\ Len(inflight) > 0
    /\ nodeInfo' = [nodeInfo EXCEPT !.Pods = Append(@, Head(inflight))]
    /\ inflight' = Tail(inflight)
    /\ UNCHANGED <<p, pc, status, filtered, pre, no, indexes, calls, rsv, again, ledger, raced>>

RaceNext == RaceBegin \/ Filter \/ Reserve \/ Unreserve \/ BindAsync \/ BindLands

SpecRace == ScenarioInit /\ [][RaceNext]_vars

\* ============================================================== claims
\* What the specification says of the fit finders, computed from a gpuNode's
\* unit values and a requested quantity.
memRequest == podResourceLimit(MemResourceName, p).val

\* Headroom of unit k of n after hypothetically accepting the request.
Headroom(n, k, requested) ==
    Unit(n, k).capacityBytes - (Unit(n, k).usedBytes + requested)

\* Units that can take a shared request, each judged on its own capacity.
SharedCandidates(n, requested) ==
    { k \in 1..Len(n.gpus) :
        ~Unit(n, k).exclusiveLock /\ Headroom(n, k, requested) >= 0 }

\* Units that can be claimed exclusively.
ExclusiveCandidates(n) ==
    { k \in 1..Len(n.gpus) : ~Unit(n, k).exclusiveLock /\ Unit(n, k).usedBytes = 0 }

\* The best fit: least headroom, lowest index on ties.
IsBestFit(n, k, requested) ==
    /\ k \in SharedCandidates(n, requested)
    /\ \A j \in SharedCandidates(n, requested) :
          \/ Headroom(n, k, requested) < Headroom(n, j, requested)
          \/ Headroom(n, k, requested) = Headroom(n, j, requested) /\ k <= j

Range(q) == { q[k] : k \in 1..Len(q) }

\* The last finder call was the first one on a freshly built gpuNode.
FirstCall(finder) == Len(calls) = 1 /\ calls[1].finder = finder

\* C1: the list MemAssumeFitIndexes returns is ordered ascending by the
\* headroom capacityBytes - (usedBytes + requested) each returned unit had
\* before the call, units of equal headroom by ascending index.
C1_SharedFitOrderedByHeadroom ==
    FirstCall("mem") =>
        \A a, b \in 1..Len(indexes) :
            a < b =>
                \/ Headroom(pre, indexes[a] + 1, memRequest)
                       < Headroom(pre, indexes[b] + 1, memRequest)
                \/ /\ Headroom(pre, indexes[a] + 1, memRequest)
                          = Headroom(pre, indexes[b] + 1, memRequest)
                   /\ indexes[a] < indexes[b]

\* C2: the indexes MemAssumeFitIndexes returns are exactly the units that are
\* not exclusively locked and have usedBytes + requested <= capacityBytes,
\* each unit judged against its own capacity.
C2_SharedFitExactCandidates ==
    FirstCall("mem") =>
        Range(indexes) = { Unit(pre, k).index : k \in SharedCandidates(pre, memRequest) }

\* A pod that declares only the shared-memory resource.
IsShared(pod) ==
    podResourceLimit(MemResourceName, pod).exist
    /\ ~podResourceLimit(GPUResourceName, pod).exist

\* A pod that declares only the exclusive resource.
IsExclusive(pod) ==
    podResourceLimit(GPUResourceName, pod).exist
    /\ ~podResourceLimit(MemResourceName, pod).exist

\* C3: Reserve for a shared-memory pod records the index of the best-fit unit
\* of the freshly built gpuNode (least headroom after accepting the request,
\* lowest index on ties).
C3_ReserveSharedRecordsBestFit ==
    (pc = "reserved" /\ IsShared(p)) =>
        LET fresh == NewGPUNode(nodeInfo)
        IN  \E k \in 1..Len(fresh.gpus) :
                /\ IsBestFit(fresh, k, memRequest)
                /\ GPUIndexAnnotationKey \in DOMAIN p.Annotations
                /\ p.Annotations[GPUIndexAnnotationKey] = Itoa(k - 1)

\* C4: a fit finder call leaves every unit's capacityBytes, usedBytes and
\* exclusiveLock unchanged, and the same finder called twice on the same
\* gpuNode returns the same list both times.
C4_FitFindersPure ==
    /\ pc = "called" => Units(no) = Units(pre)
    /\ (Len(calls) >= 2 /\ calls[1].finder = calls[2].finder) =>
           calls[1].indexes = calls[2].indexes

\* C5: GPUAssumeFitIndexes returns exactly the units with exclusiveLock false
\* and usedBytes 0, in ascending index order.
C5_ExclusiveFitExact ==
    (pc = "called" /\ calls[Len(calls)].finder = "gpu") =>
        /\ Range(indexes) = { Unit(pre, k).index : k \in ExclusiveCandidates(pre) }
        /\ \A a, b \in 1..Len(indexes) : a < b => indexes[a] < indexes[b]

\* C5 witness: an exclusive fit that returned a unit and left out a unit that
\* is not locked but carries shared usage.
C5_Witness ==
    /\ pc = "called"
    /\ calls[Len(calls)].finder = "gpu"
    /\ Len(indexes) >= 1
    /\ \E k \in 1..Len(pre.gpus) :
          ~Unit(pre, k).exclusiveLock /\ Unit(pre, k).usedBytes # 0

\* C6: when Filter returned feasible for the pod, Reserve on the same
\* unchanged node does not reject it for lack of a fitting unit.
C6_FeasibleThenReserveFits ==
    (filtered /\ pc = "failed") => status.code # "Unschedulable"

\* The scenario's pods, by their containers: A shared 5, B shared 2 (two
\* containers of 1), C exclusive 1, D and E shared 1.
ScenarioA == <<Container(MemResourceName, 5)>>
ScenarioB == <<Container(MemResourceName, 1), Container(MemResourceName, 1)>>
ScenarioC == <<Container(GPUResourceName, 1)>>
ScenarioD == <<Container(MemResourceName, 1)>>
ScenarioE == <<Container(MemResourceName, 1)>>
ScenarioPlaced == <<ScenarioA, ScenarioB, ScenarioC, ScenarioD>>
ScenarioIndex == <<0, 0, 1, 0>>
ScenarioUsed0 == <<5, 7, 7, 8>>

PlacedContainers == [k \in 1..Len(nodeInfo.Pods) |-> nodeInfo.Pods[k].Containers]

\* The pods placed so far are the first ones of the scenario, in its order.
ScenarioPrefix ==
    /\ nodeInfo.Allocatable = ScenarioAllocatable
    /\ Len(nodeInfo.Pods) \in 1..4
    /\ PlacedContainers = SubSeq(ScenarioPlaced, 1, Len(nodeInfo.Pods))

\* C7: on 2 units with 16 of memory, A shared 5, B shared 2, C exclusive 1,
\* D shared 1 committed in this order get the indexes 0, 0, 1, 0, unit 0 has
\* used memory 5, 7, 7, 8 after the respective commits, unit 1 is locked from
\* C on, and E shared 1 is then rejected as Unschedulable on an empty fit list.
C7_Scenario ==
    ScenarioPrefix =>
        LET n     == Len(nodeInfo.Pods)
            units == Units(NewGPUNode(nodeInfo))
        IN  /\ \A k \in 1..n :
                  /\ GPUIndexAnnotationKey \in DOMAIN nodeInfo.Pods[k].Annotations
                  /\ nodeInfo.Pods[k].Annotations[GPUIndexAnnotationKey]
                         = Itoa(ScenarioIndex[k])
            /\ units[1].usedBytes = ScenarioUsed0[n]
            /\ units[2].exclusiveLock = (n >= 3)
            /\ units[2].usedBytes = 0
            /\ (n = 4 /\ p = Pod(ScenarioE, NoAnnotations)) =>
                  /\ pc \notin {"filtered", "reserved", "unreserved"}
                  /\ status.code \in {"", "Error", "Unschedulable"}
                  /\ indexes = <<>>

\* C7 witness: A, B, C, D are placed and Reserve has rejected E.
C7_Witness ==
    /\ ScenarioPrefix
    /\ Len(nodeInfo.Pods) = 4
    /\ p = Pod(ScenarioE, NoAnnotations)
    /\ pc = "failed"
    /\ status = NewStatus("Unschedulable", "allocate index fail nvidia.flex.com/memory")

\* C8: after a successful Reserve directly followed by Unreserve the pod
\* carries no index and the gpuNode built for the node is the one built
\* before the reservation, and a second Reserve from there records the same
\* index as the first.
C8_ReserveUnreserveRoundTrip ==
    /\ (pc = "unreserved" /\ rsv.valid) =>
          /\ NewGPUNode(nodeInfo) = rsv.before
          /\ GPUIndexAnnotationKey \notin DOMAIN p.Annotations
    /\ (pc = "reserved" /\ again) => p.Annotations = rsv.Annotations

\* C8 witness: a pod with an accelerator request was reserved on a unit,
\* unreserved and reserved again.
C8_Witness ==
    /\ pc = "reserved"
    /\ again
    /\ rsv.index >= 0
    /\ Len(nodeInfo.Pods) >= 1

\* C9: the gpuNode built from the pods committed through Reserve has, for
\* every unit, usedBytes equal to the shared bytes committed to that index
\* and exclusiveLock true exactly when an exclusive pod was committed to it.
C9_RebuildRoundTrip ==
    LET rebuilt == NewGPUNode(nodeInfo)
    IN  ~rebuilt.panic =>
            /\ Len(rebuilt.gpus) = Len(ledger)
            /\ \A k \in 1..Len(ledger) :
                  /\ Unit(rebuilt, k).usedBytes = ledger[k].usedBytes
                  /\ Unit(rebuilt, k).exclusiveLock = ledger[k].exclusiveLock

\* C9 witness: commits have locked one unit and put shared bytes on another.
C9_Witness ==
    /\ ~NewGPUNode(nodeInfo).panic
    /\ Len(nodeInfo.Pods) >= 2
    /\ \E k \in 1..Len(ledger) : ledger[k].exclusiveLock
    /\ \E k \in 1..Len(ledger) : ledger[k].usedBytes > 0

RECURSIVE SumCapacity(_, _)
SumCapacity(n, k) ==
    IF k > Len(n.gpus) THEN 0 ELSE Unit(n, k).capacityBytes + SumCapacity(n, k + 1)

\* Every unit of n has the quotient as capacity; the remainder is unaccounted.
CapacityIsQuotient(n) ==
    /\ \A k \in 1..Len(n.gpus) :
          Unit(n, k).capacityBytes = n.memoryTotal \div n.gpuCount
    /\ SumCapacity(n, 1) <= n.memoryTotal
    /\ n.memoryTotal - SumCapacity(n, 1) = n.memoryTotal % n.gpuCount

\* C10: every unit of the gpuNode has capacityBytes = totalMemoryBytes div
\* unitCount, as built and as Filter or Reserve leave it after a fit finder ran.
C10_CapacityIsQuotient ==
    /\ (pre # NoNode /\ ~pre.panic) => CapacityIsQuotient(pre)
    /\ (no # NoNode /\ ~no.panic) => CapacityIsQuotient(no)

\* -------------------------------------------------- feasibility vetoes
\* The containers of pods that declare a limit for name, as <<pod, container>>.
Declaring(name, pods) ==
    { c \in UNION { { <<k, j>> : j \in 1..Len(pods[k].Containers) } : k \in 1..Len(pods) } :
        name \in DOMAIN pods[c[1]].Containers[c[2]] }

RECURSIVE SumCells(_, _, _)
SumCells(name, pods, cells) ==
    IF cells = {} THEN 0
    ELSE LET c == CHOOSE x \in cells : TRUE
         IN  pods[c[1]].Containers[c[2]][name] + SumCells(name, pods, cells \ {c})

\* Total of the limits for name over all containers of the pods.
TotalLimits(name, pods) == SumCells(name, pods, Declaring(name, pods))

Declares(pod, name) == Declaring(name, <<pod>>) # {}

\* What the node would carry of name with the pod of the cycle on it.
AssumedTotal(name) == TotalLimits(name, nodeInfo.Pods) + TotalLimits(name, <<p>>)

ReportsBoth ==
    {GPUResourceName, MemResourceName} \subseteq DOMAIN nodeInfo.Allocatable

OneKind(pod) == Declares(pod, GPUResourceName) # Declares(pod, MemResourceName)

DeclaredKind(pod) ==
    IF Declares(pod, GPUResourceName) THEN GPUResourceName ELSE MemResourceName

FilterReturned == pc \in {"filtered", "rejected"}

Insufficient(name) ==
    NewStatus("Unschedulable",
              IF name = GPUResourceName THEN "insufficient resource nvidia.flex.com/gpu"
              ELSE "insufficient resource nvidia.flex.com/memory")

\* C11: when Filter reaches its aggregate check (the pod declares one kind
\* and the node reports both resources) and the limits of all pods on the
\* node, annotated or not, plus the request exceed the allocatable of the
\* declared kind, Filter returns Unschedulable "insufficient resource" and has
\* built no gpuNode; a total equal to or below the allocatable is not
\* rejected as insufficient for that kind.
C11_AggregateCheck ==
    (FilterReturned /\ OneKind(p) /\ ReportsBoth) =>
        LET kind  == DeclaredKind(p)
            total == AssumedTotal(kind)
        IN  /\ total > nodeInfo.Allocatable[kind] =>
                /\ status \in {Insufficient(GPUResourceName), Insufficient(MemResourceName)}
                /\ pre = NoNode
            /\ total <= nodeInfo.Allocatable[kind] => status # Insufficient(kind)

\* Filter rejected a shared request over the aggregate, counting a pod on the
\* node that has no index annotation.
C11_Witness ==
    /\ pc = "rejected" /\ OneKind(p) /\ ReportsBoth
    /\ DeclaredKind(p) = MemResourceName
    /\ AssumedTotal(MemResourceName) > nodeInfo.Allocatable[MemResourceName]
    /\ status = Insufficient(MemResourceName)
    /\ \E k \in 1..Len(nodeInfo.Pods) :
          /\ Declares(nodeInfo.Pods[k], MemResourceName)
          /\ GPUIndexAnnotationKey \notin DOMAIN nodeInfo.Pods[k].Annotations

UnknownResourceType == NewStatus("UnschedulableAndUnresolvable", "unknown resource type")

\* C12: for a pod that declares exactly one kind, Filter on a node whose
\* allocatable lacks either of the two resource names returns
\* UnschedulableAndUnresolvable "unknown resource type", whichever kind the
\* pod requests and whatever pods are on the node, and builds no gpuNode.
C12_UnknownResourceType ==
    (FilterReturned /\ OneKind(p) /\ ~ReportsBoth) =>
        (status = UnknownResourceType /\ pre = NoNode)

\* Filter rejected an exclusive request on a node with pods that reports the
\* GPU count but not the memory.
C12_Witness ==
    /\ pc = "rejected" /\ OneKind(p)
    /\ DeclaredKind(p) = GPUResourceName
    /\ DOMAIN nodeInfo.Allocatable = {GPUResourceName}
    /\ Len(nodeInfo.Pods) > 0
    /\ status = UnknownResourceType

\* A pod whose containers together declare both resources.
Conflicting(pod) == Declares(pod, GPUResourceName) /\ Declares(pod, MemResourceName)

ConflictingRequest == NewStatus("UnschedulableAndUnresolvable", "pod conflict resources")

NodeLookupError == NewStatus("Error", "getting node from Snapshot")

\* A step in which Filter or Reserve is called and returns or panics.
HandlerStep ==
    /\ pc \in {"new", "filtered", "unreserved"}
    /\ pc' \in {"filtered", "rejected", "reserved", "failed", "crashed"}

\* C13: for a pod that declares both resources, whatever the node and its
\* pods, every call of Filter and every call of Reserve that finds the node
\* returns UnschedulableAndUnresolvable "pod conflict resources" without
\* building a gpuNode, and leaves the pod's annotations and the node as they
\* were (a Reserve whose node lookup fails returns Error before it looks at
\* the pod).
C13_ConflictAlwaysRejected ==
    [][ (HandlerStep /\ Conflicting(p)) =>
            /\ pc' \in {"rejected", "failed"}
            /\ status' \in IF pc' = "failed"
                           THEN {ConflictingRequest, NodeLookupError}
                           ELSE {ConflictingRequest}
            /\ pre' = NoNode
            /\ p' = p
            /\ nodeInfo' = nodeInfo ]_vars

\* Reserve found the node and rejected a pod declaring both resources that
\* arrived with an index annotation, on a node that has pods.
C13_Witness ==
    /\ pc = "failed" /\ Conflicting(p)
    /\ status = ConflictingRequest
    /\ GPUIndexAnnotationKey \in DOMAIN p.Annotations
    /\ p.Annotations[GPUIndexAnnotationKey] = <<"1">>
    /\ Len(nodeInfo.Pods) > 0

\* ------------------------------------------------------ malformed capacity
\* C14: when the node's capacity gives no usable unit count (the count is
\* zero, or the resource is absent when the gpuNode is built), Filter and
\* Reserve return and the process keeps running: no handler panics.
C14_MalformedCapacityNoCrash ==
    Allocatable(nodeInfo, GPUResourceName) = 0 => pc # "crashed"

\* ------------------------------------------------------ exclusive reserve
\* A base-10 numeral of a non-negative integer: digits only, no leading zero
\* but for "0" itself.
IsNumeral(s) ==
    /\ Len(s) > 0
    /\ \A k \in 1..Len(s) : IsDigit(s[k])
    /\ (Len(s) > 1 => s[1] # "0")

Lowest(S) == CHOOSE x \in S : \A y \in S : x <= y

\* C15: a Reserve that found the node, for a pod that declares only the
\* exclusive resource, records as the pod's index annotation the base-10
\* numeral of the lowest index among the units of the freshly built gpuNode
\* that are not locked and have usedBytes = 0; when there is no such unit it
\* returns Unschedulable.
C15_ReserveExclusiveLowestIndex ==
    (/\ pc \in {"reserved", "failed"}
     /\ OneKind(p) /\ DeclaredKind(p) = GPUResourceName
     /\ status # NodeLookupError) =>
        LET fresh == NewGPUNode(nodeInfo)
            free  == { Unit(fresh, k).index : k \in ExclusiveCandidates(fresh) }
        IN  IF free = {}
            THEN pc = "failed" /\ status.code = "Unschedulable"
            ELSE /\ pc = "reserved"
                 /\ GPUIndexAnnotationKey \in DOMAIN p.Annotations
                 /\ IsNumeral(p.Annotations[GPUIndexAnnotationKey])
                 /\ ParseDigits(p.Annotations[GPUIndexAnnotationKey], 0) = Lowest(free)

\* Reserve recorded unit 1 for an exclusive pod: unit 0 was not free.
C15_Witness ==
    /\ pc = "reserved"
    /\ OneKind(p) /\ DeclaredKind(p) = GPUResourceName
    /\ 1 \notin ExclusiveCandidates(NewGPUNode(nodeInfo))
    /\ 2 \in ExclusiveCandidates(NewGPUNode(nodeInfo))
    /\ p.Annotations = IndexAnnotation(<<"1">>)

\* ------------------------------------------------------ overlapping cycles
\* Positions of the pods on the node whose annotation names unit index i.
PlacedOn(i) ==
    { k \in 1..Len(nodeInfo.Pods) :
        /\ GPUIndexAnnotationKey \in DOMAIN nodeInfo.Pods[k].Annotations
        /\ IsNumeral(nodeInfo.Pods[k].Annotations[GPUIndexAnnotationKey])
        /\ ParseDigits(nodeInfo.Pods[k].Annotations[GPUIndexAnnotationKey], 0) = i }

ExclusiveOn(i) == { k \in PlacedOn(i) : Declares(nodeInfo.Pods[k], GPUResourceName) }

SharedOn(i) == { k \in PlacedOn(i) : Declares(nodeInfo.Pods[k], MemResourceName) }

\* Shared memory the pods on the node hold on unit i.
SharedBytesOn(i) ==
    LET on == SharedOn(i)
    IN  SumCells(MemResourceName, nodeInfo.Pods,
                 { c \in Declaring(MemResourceName, nodeInfo.Pods) : c[1] \in on })

UnitCount == Allocatable(nodeInfo, GPUResourceName)

UnitCapacity == Allocatable(nodeInfo, MemResourceName) \div UnitCount

DoublyExclusive(i) == Cardinality(ExclusiveOn(i)) > 1

ExclusiveAndShared(i) == ExclusiveOn(i) # {} /\ SharedOn(i) # {}

OverCapacity(i) == SharedBytesOn(i) > UnitCapacity

Overcommitted ==
    \E i \in 0..(UnitCount - 1) :
        DoublyExclusive(i) \/ ExclusiveAndShared(i) \/ OverCapacity(i)

\* C16: as long as every handler ran with all earlier reservations visible in
\* the snapshot (cycles strictly one after the other), no unit of the node is
\* claimed by two exclusive pods, or by an exclusive and a shared pod, or
\* holds more shared memory than its capacity; cycles that overlap, one
\* running while the other's binding has not landed, do reach such a state.
C16_SequentialNeverOvercommits == ~raced => ~Overcommitted

\* Two pods reserved in overlapping cycles recorded the same unit index, both
\* exclusive, and both are on the node.
C16_Witness ==
    /\ raced
    /\ \E i \in 0..(UnitCount - 1) : DoublyExclusive(i)

\* ----------------------------------------------------------- frame effects
FilterStep == pc = "new" /\ pc' \in {"filtered", "rejected"}

ReserveStep ==
    /\ pc \in {"new", "filtered", "unreserved"}
    /\ pc' \in {"reserved", "failed"}

UnreserveStep ==
    /\ pc \in {"reserved", "failed"}
    /\ pc' \in {"unreserved", "idle"}

\* Two annotation maps that agree on every key but the index key.
SameButIndex(a, b) ==
    /\ (DOMAIN a) \ {GPUIndexAnnotationKey} = (DOMAIN b) \ {GPUIndexAnnotationKey}
    /\ \A k \in (DOMAIN a) \ {GPUIndexAnnotationKey} : a[k] = b[k]

\* C18: a call of Reserve or Unreserve changes nothing but the index
\* annotation of the pod it is called for: the node, the pods on it, the
\* pod's containers and its other annotations stay as they were; after
\* Unreserve the pod has no index annotation, whether the Reserve before it
\* succeeded or failed and whoever had put the annotation there.
C18_ReserveUnreserveFrame ==
    [][ (ReserveStep \/ UnreserveStep) =>
            /\ nodeInfo' = nodeInfo
            /\ p'.Containers = p.Containers
            /\ SameButIndex(p.Annotations, p'.Annotations)
            /\ (UnreserveStep => GPUIndexAnnotationKey \notin DOMAIN p'.Annotations) ]_vars

\* Unreserve ran after a failed Reserve of a pod that had arrived with an
\* index annotation and another one: only the index annotation is gone.
C18_Witness ==
    /\ pc = "idle"
    /\ status.code = "Unschedulable"
    /\ DOMAIN p.Annotations = {"owner"}
    /\ Len(nodeInfo.Pods) > 0

\* ------------------------------------------------------- building the gpuNode
\* The text of an integer: an optional sign, then decimal digits.
Unsigned(s) == IF Len(s) > 0 /\ s[1] \in {"+", "-"} THEN Tail(s) ELSE s

IsIntegerText(s) ==
    Len(Unsigned(s)) > 0 /\ \A k \in 1..Len(Unsigned(s)) : IsDigit(Unsigned(s)[k])

\* The pod declares an accelerator resource and carries an integer index.
Committed(pod) ==
    /\ Declares(pod, GPUResourceName) \/ Declares(pod, MemResourceName)
    /\ GPUIndexAnnotationKey \in DOMAIN pod.Annotations
    /\ IsIntegerText(pod.Annotations[GPUIndexAnnotationKey])

RemoveAt(q, k) == SubSeq(q, 1, k - 1) \o SubSeq(q, k + 1, Len(q))

\* The node without its k-th pod.
Without(k) == [nodeInfo EXCEPT !.Pods = RemoveAt(@, k)]

\* The gpuNode a handler built from the node, when it built one.
Built == pre # NoNode /\ ~pre.panic

\* C19: in the gpuNode built from a node, a pod that declares neither
\* resource, or declares one but has no index annotation or one that is no
\* integer, changes nothing: the gpuNode equals the one built without that
\* pod. A pod with a recorded index changes that unit only: it sets the
\* unit's exclusiveLock if it declares the exclusive resource and adds its
\* bytes to the unit's usedBytes if it declares shared memory.
C19_BuildCountsCommittedPodsOnly ==
    Built =>
        \A k \in 1..Len(nodeInfo.Pods) :
            LET pod  == nodeInfo.Pods[k]
                base == NewGPUNode(Without(k))
            IN  IF ~Committed(pod) THEN pre = base
                ELSE LET i == ParseDigits(Unsigned(pod.Annotations[GPUIndexAnnotationKey]), 0) + 1
                     IN  /\ Len(pre.gpus) = Len(base.gpus)
                         /\ \A j \in 1..Len(pre.gpus) : j # i => Unit(pre, j) = Unit(base, j)
                         /\ Unit(pre, i).capacityBytes = Unit(base, i).capacityBytes
                         /\ Unit(pre, i).exclusiveLock =
                                (Unit(base, i).exclusiveLock \/ Declares(pod, GPUResourceName))
                         /\ Unit(pre, i).usedBytes =
                                Unit(base, i).usedBytes + TotalLimits(MemResourceName, <<pod>>)

\* A gpuNode was built from a node with a shared pod committed to unit 1 and
\* an exclusive pod whose annotation is no integer: unit 1 carries the bytes,
\* no unit is locked.
C19_Witness ==
    /\ Built
    /\ Len(pre.gpus) = 2
    /\ \E k \in 1..Len(nodeInfo.Pods) :
          /\ Committed(nodeInfo.Pods[k])
          /\ Declares(nodeInfo.Pods[k], MemResourceName)
          /\ Unit(pre, 2).usedBytes = TotalLimits(MemResourceName, <<nodeInfo.Pods[k]>>)
    /\ \E k \in 1..Len(nodeInfo.Pods) :
          /\ ~Committed(nodeInfo.Pods[k])
          /\ Declares(nodeInfo.Pods[k], GPUResourceName)
    /\ \A j \in 1..Len(pre.gpus) : ~Unit(pre, j).exclusiveLock

\* ------------------------------------------------------ capacity is kept
\* C20: starting from a node without accelerator pods, after any sequence of
\* cycles run one after the other (Filter, Reserve, then Unreserve or Bind),
\* every unit of the gpuNode rebuilt from the node has usedBytes at most its
\* capacityBytes, which is the memory total div the unit count, and the
\* shared memory of all pods on the node is at most unit count times that
\* quotient.
C20_SequentialWithinCapacity ==
    UnitCount > 0 =>
        LET rebuilt == NewGPUNode(nodeInfo)
        IN  /\ ~rebuilt.panic
            /\ \A k \in 1..Len(rebuilt.gpus) :
                  LET unit   == Unit(rebuilt, k)
                      shared == SharedBytesOn(k - 1)
                  IN  /\ unit.usedBytes <= unit.capacityBytes
                      /\ unit.usedBytes = shared
                      /\ shared <= UnitCapacity
            /\ TotalLimits(MemResourceName, nodeInfo.Pods) <= UnitCount * UnitCapacity

\* Three shared pods were bound one after the other and fill a unit exactly.
C20_Witness ==
    /\ pc = "idle"
    /\ UnitCount > 0
    /\ Len(nodeInfo.Pods) = 3
    /\ \E i \in 0..(UnitCount - 1) :
          /\ Cardinality(SharedOn(i)) = 3
          /\ SharedBytesOn(i) = UnitCapacity

\* ----------------------------------------------------- exclusive is exclusive
\* The pod's index annotation is the numeral of one of the node's units.
AssignedInRange(pod) ==
    /\ GPUIndexAnnotationKey \in DOMAIN pod.Annotations
    /\ IsNumeral(pod.Annotations[GPUIndexAnnotationKey])
    /\ ParseDigits(pod.Annotations[GPUIndexAnnotationKey], 0) \in 0..(UnitCount - 1)

\* C21: starting from a node without accelerator pods, after any sequence of
\* cycles run one after the other in which Reserve records the assignments,
\* no unit is assigned to two exclusive pods, no unit of the rebuilt gpuNode
\* is exclusively locked while its usedBytes are not zero, and every recorded
\* assignment, of the pods on the node and of the pod just reserved, is an
\* index in 0..unitCount - 1.
C21_ExclusiveUnitsStayExclusive ==
    UnitCount > 0 =>
        LET rebuilt == NewGPUNode(nodeInfo)
        IN  /\ ~rebuilt.panic
            /\ \A i \in 0..(UnitCount - 1) : ~DoublyExclusive(i)
            /\ \A k \in 1..Len(rebuilt.gpus) :
                  Unit(rebuilt, k).exclusiveLock => Unit(rebuilt, k).usedBytes = 0
            /\ \A k \in 1..Len(nodeInfo.Pods) :
                  OneKind(nodeInfo.Pods[k]) => AssignedInRange(nodeInfo.Pods[k])
            /\ (pc = "reserved" /\ OneKind(p)) => AssignedInRange(p)

\* An exclusive pod and two shared pods were bound one after the other on a
\* node with two units: one unit is locked and unused, the other one carries
\* the shared bytes.
C21_Witness ==
    /\ pc = "idle"
    /\ UnitCount = 2
    /\ Len(nodeInfo.Pods) = 3
    /\ \E i, j \in 0..1 :
          /\ i # j
          /\ Cardinality(ExclusiveOn(i)) = 1 /\ SharedOn(i) = {}
          /\ Cardinality(SharedOn(j)) = 2 /\ ExclusiveOn(j) = {}

\* ------------------------------------------------------- nothing to record
\* A pod none of whose containers declares an accelerator resource.
Plain(pod) == ~Declares(pod, GPUResourceName) /\ ~Declares(pod, MemResourceName)

\* C22: a call of Reserve that returns a status other than Success (node
\* lookup Error, conflicting request, no fitting unit) leaves the pod's
\* annotations exactly as they were; for a pod that declares neither
\* resource, Filter returns Success and a Reserve that finds the node returns
\* Success, on every node, and neither creates or changes an annotation.
C22_NoAssignmentWithoutSuccess ==
    [][ /\ (ReserveStep /\ pc' = "failed") =>
               (status' # Nil /\ p' = p)
        /\ (FilterStep /\ Plain(p)) =>
               (pc' = "filtered" /\ status' = Nil /\ p' = p)
        /\ (ReserveStep /\ Plain(p)) =>
               /\ p' = p
               /\ IF pc' = "reserved" THEN status' = Nil ELSE status' = NodeLookupError
      ]_vars

\* Reserve found no fitting unit for a pod that had arrived with an index
\* annotation and another one: both are still there.
C22_Witness ==
    /\ pc = "failed"
    /\ status = NewStatus("Unschedulable", "allocate index fail nvidia.flex.com/memory")
    /\ p.Annotations = IndexAnnotation(<<"1">>) @@ ("owner" :> <<"a">>)

====
